---- MODULE Spec2Model ----
(***************************************************************************)
(* A model of the mem0-go client library: client construction with its     *)
(* liveness ping, the request dispatch of the public operations, the       *)
(* options encoder (JSON body merge and URL query string) and the filter   *)
(* normalizer of the v2 search/list endpoints.                             *)
(*                                                                         *)
(* Text is modelled as a sequence of tokens (strings): a message, a URL, a *)
(* response body and a query string are token sequences, so that           *)
(* formatting (fmt.Sprintf, strconv, url.Values.Encode) and parsing        *)
(* (json.Unmarshal) are computed and not assumed.  A Go value that may be  *)
(* nil (a pointer, a map, a slice) is the empty tuple Nil or the           *)
(* one-element tuple Some(v).                                              *)
(***************************************************************************)
EXTENDS Integers, Sequences, FiniteSets, TLC

VARIABLES
    client,   \* the *MemoryClient NewMemoryClient returned: Nil or Some(record)
    call,     \* the call in progress or just returned: operation and arguments
    net,      \* what the transport and the service answer to the call's request
    wire,     \* the HTTP requests the call handed to http.Client.Do, in order
    ret,      \* what the call returned: result value and error
    opts      \* the caller's options object after the call (Search, GetAll)

vars == <<client, call, net, wire, ret, opts>>

----------------------------------------------------------------------------
(* Bounds of the model *)

\* longest []string / []Message argument and longest decoded memory array
MaxItems == 2
\* largest value of an integer option field (Page, PageSize, Timestamp, TopK)
MaxInt == 1

----------------------------------------------------------------------------
(* Go values *)

Nil == <<>>
Some(v) == <<v>>

EmptyMap == [k \in {} |-> ""]

\* len(m) of a map or slice value that may be nil
Len0(v) == IF v = Nil THEN 0 ELSE IF DOMAIN v[1] = {} THEN 0 ELSE 1

MapDelete(m, k) == [x \in DOMAIN m \ {k} |-> m[x]]

MapSet(m, k, v) == [x \in DOMAIN m \cup {k} |-> IF x = k THEN v ELSE m[x]]

\* a mutant: on a collision the entry already in dst is kept
MapMergeKeepFirst(dst, src) ==
    [k \in DOMAIN dst \cup DOMAIN src |-> IF k \in DOMAIN dst THEN dst[k] ELSE src[k]]

\* for k, v := range src { dst[k] = v }
MapMerge(dst, src) ==
    [k \in DOMAIN dst \cup DOMAIN src |-> IF k \in DOMAIN src THEN src[k] ELSE dst[k]]

RECURSIVE Concat(_)
\* strings.Join / fmt concatenation of a sequence of token sequences
Concat(ss) == IF ss = <<>> THEN <<>> ELSE Head(ss) \o Concat(Tail(ss))

\* strings.Contains on token sequences
Contains(s, sub) ==
    \E i \in 0..(Len(s) - Len(sub)) : SubSeq(s, i + 1, i + Len(sub)) = sub

Digit == <<"0", "1", "2", "3", "4", "5", "6", "7", "8", "9">>

RECURSIVE FormatInt(_)
\* strconv.FormatInt(n, 10) and fmt's %d, for n >= 0
FormatInt(n) ==
    IF n < 10 THEN <<Digit[n + 1]>>
    ELSE FormatInt(n \div 10) \o <<Digit[(n % 10) + 1]>>

FormatBool(b) == IF b THEN <<"true">> ELSE <<"false">>

----------------------------------------------------------------------------
(* types: API version *)

V1 == "v1"
V2 == "v2"
DefaultAPIVersion == V2

IsDefault(v) == v = DefaultAPIVersion \/ v = ""

----------------------------------------------------------------------------
(* Filter normalizer *)

SearchWildcard == "*"

\* a mutant: the agent_id key survives normalization
fixAPIV2FiltersKeepAgent(filters) ==
    LET f0 == IF filters = Nil THEN EmptyMap ELSE filters[1]
        f1 == IF "user_id" \in DOMAIN f0 THEN f0 ELSE MapSet(f0, "user_id", SearchWildcard)
        f2 == IF "app_id" \in DOMAIN f1 THEN f1 ELSE MapSet(f1, "app_id", SearchWildcard)
        f3 == IF "run_id" \in DOMAIN f2 THEN f2 ELSE MapSet(f2, "run_id", SearchWildcard)
    IN  Some(f3)

\* The map is changed in place and returned: the result is also the new
\* content of the map the caller passed in, when that was not nil.
fixAPIV2Filters(filters) ==
    LET f0 == IF filters = Nil THEN EmptyMap ELSE filters[1]
        f1 == MapDelete(f0, "agent_id")
        f2 == IF "user_id" \in DOMAIN f1 THEN f1 ELSE MapSet(f1, "user_id", SearchWildcard)
        f3 == IF "app_id" \in DOMAIN f2 THEN f2 ELSE MapSet(f2, "app_id", SearchWildcard)
        f4 == IF "run_id" \in DOMAIN f3 THEN f3 ELSE MapSet(f3, "run_id", SearchWildcard)
    IN  Some(f4)

----------------------------------------------------------------------------
(* types: the options structs.  One field stands for the fields of the     *)
(* same Go type and tag shape that the struct declares beside it (UserID   *)
(* for AgentID, AppID, RunID, ...; Infer for EnableGraph; Messages for     *)
(* CustomCategories).  OrgName and ProjectName are the fields the client   *)
(* assigns in preparePayload and Search.                                   *)

Message(role, content) == [role |-> role, content |-> content]

ZeroMemoryOptions ==
    [Version |-> "", UserID |-> "", Timestamp |-> 0, Metadata |-> Nil,
     Filters |-> Nil, OrgID |-> "", ProjectID |-> "", OrgName |-> "",
     ProjectName |-> "", Infer |-> FALSE, Page |-> 0, PageSize |-> 0,
     Messages |-> Nil]

ZeroSearchOptions ==
    [MemoryOptions |-> ZeroMemoryOptions, TopK |-> 0, Fields |-> Nil,
     Rerank |-> FALSE, Version |-> ""]

ZeroProjectOptions == [Fields |-> Nil]

\* a struct tag `json:"<name>,omitempty"`, as the text Tag.Get("json") returns
OmitEmptyTag(name) == <<name, ",", "omitempty">>

\* the name under which encoding/json writes a tagged field
WireName(tag) == tag[1]

Field(name, tag, kind, value) ==
    [name |-> name, tag |-> tag, kind |-> kind, value |-> value]

\* The fields of a MemoryOptions value in declaration order, then OrgName and
\* ProjectName, which the client assigns (wire names org_name, project_name).
MemoryOptionsFields(o) ==
    << Field("Version", OmitEmptyTag("version"), "string", o.Version),
       Field("UserID", OmitEmptyTag("user_id"), "string", o.UserID),
       Field("Timestamp", OmitEmptyTag("timestamp"), "int", o.Timestamp),
       Field("Metadata", OmitEmptyTag("metadata"), "map", o.Metadata),
       Field("Filters", OmitEmptyTag("filters"), "map", o.Filters),
       Field("OrgID", OmitEmptyTag("org_id"), "string", o.OrgID),
       Field("ProjectID", OmitEmptyTag("project_id"), "string", o.ProjectID),
       Field("Infer", OmitEmptyTag("infer"), "bool", o.Infer),
       Field("Page", OmitEmptyTag("page"), "int", o.Page),
       Field("PageSize", OmitEmptyTag("page_size"), "int", o.PageSize),
       Field("Messages", OmitEmptyTag("messages"), "structslice", o.Messages),
       Field("OrgName", OmitEmptyTag("org_name"), "string", o.OrgName),
       Field("ProjectName", OmitEmptyTag("project_name"), "string", o.ProjectName) >>

\* The embedded MemoryOptions is an untagged struct field.
SearchOptionsFields(o) ==
    << Field("MemoryOptions", <<>>, "struct", MemoryOptionsFields(o.MemoryOptions)),
       Field("TopK", OmitEmptyTag("top_k"), "int", o.TopK),
       Field("Fields", OmitEmptyTag("fields"), "stringslice", o.Fields),
       Field("Rerank", OmitEmptyTag("rerank"), "bool", o.Rerank),
       Field("Version", OmitEmptyTag("version"), "string", o.Version) >>

ProjectOptionsFields(o) ==
    << Field("Fields", OmitEmptyTag("fields"), "stringslice", o.Fields) >>

----------------------------------------------------------------------------
(* encoding/json of an options struct *)

RECURSIVE IsZero(_)
\* reflect.Value.IsZero: a nil slice or map is zero, an empty one is not;
\* a struct is zero when all its fields are
IsZero(f) ==
    CASE f.kind = "string" -> f.value = ""
      [] f.kind = "int" -> f.value = 0
      [] f.kind = "bool" -> f.value = FALSE
      [] f.kind \in {"stringslice", "structslice", "map"} -> f.value = Nil
      [] f.kind = "struct" -> \A i \in DOMAIN f.value : IsZero(f.value[i])

\* omitempty: false, 0, "", and a nil or empty slice or map are left out
IsEmptyValue(f) ==
    CASE f.kind = "string" -> f.value = ""
      [] f.kind = "int" -> f.value = 0
      [] f.kind = "bool" -> f.value = FALSE
      [] f.kind \in {"stringslice", "structslice"} ->
            f.value = Nil \/ Len(f.value[1]) = 0
      [] f.kind = "map" -> f.value = Nil \/ DOMAIN f.value[1] = {}
      [] f.kind = "struct" -> FALSE

\* the JSON value written for a field that is not left out
JSONValue(f) ==
    IF f.kind \in {"stringslice", "structslice", "map"} THEN f.value[1] ELSE f.value

\* encoding/json's field set of a struct: its own tagged fields, and the
\* fields of an embedded struct whose wire name no field of the struct itself
\* bears (the less nested field wins, whatever the values are).
DominantFields(fields) ==
    LET own == SelectSeq(fields, LAMBDA f : f.tag # <<>>)
        ownNames == {WireName(own[i].tag) : i \in DOMAIN own}
        embedded == Concat([i \in 1..Len(fields) |->
                        IF fields[i].tag = <<>> /\ fields[i].kind = "struct"
                        THEN fields[i].value ELSE <<>>])
        promoted == SelectSeq(embedded, LAMBDA f : WireName(f.tag) \notin ownNames)
    IN  promoted \o own

\* a mutant: omitempty is not honoured
MarshalOptionsKeepEmpty(fields) ==
    LET dom == DominantFields(fields)
    IN  [k \in {WireName(dom[i].tag) : i \in DOMAIN dom} |->
            LET i == CHOOSE j \in DOMAIN dom : WireName(dom[j].tag) = k
            IN  IF IsEmptyValue(dom[i]) THEN dom[i].kind ELSE JSONValue(dom[i])]

\* json.Marshal(options) followed by json.Unmarshal into a map: wire name to
\* JSON value of every field that omitempty does not leave out
MarshalOptions(fields) ==
    LET dom == DominantFields(fields)
        kept == SelectSeq(dom, LAMBDA f : ~IsEmptyValue(f))
    IN  [k \in {WireName(kept[i].tag) : i \in DOMAIN kept} |->
            JSONValue(kept[CHOOSE j \in DOMAIN kept : WireName(kept[j].tag) = k])]

----------------------------------------------------------------------------
(* Options encoder: URL query string *)

\* the keys of the maps of the model, in the byte order json.Marshal writes them
KeyOrder == <<"agent_id", "app_id", "k", "run_id", "user_id">>

\* the wire names of the model, in the byte order url.Values.Encode sorts by
NameOrder ==
    <<"fields", "filters", "infer", "messages", "metadata", "org_id", "org_name",
      "page", "page_size", "project_id", "project_name", "rerank", "timestamp",
      "top_k", "user_id", "version">>

RECURSIVE Join(_, _)
\* strings.Join(items, sep), each item a token sequence
Join(items, sep) ==
    IF items = <<>> THEN <<>>
    ELSE IF Len(items) = 1 THEN items[1]
    ELSE items[1] \o <<sep>> \o Join(Tail(items), sep)

\* json.Marshal of a map[string]any holding strings: compact, keys sorted
JSONText(m) ==
    LET keys == SelectSeq(KeyOrder, LAMBDA k : k \in DOMAIN m)
    IN  <<"{">> \o Join([i \in 1..Len(keys) |->
                    <<"\"", keys[i], "\"", ":", "\"", m[keys[i]], "\"">>], ",")
            \o <<"}">>

\* the string the switch on value.Kind() builds for a field that is not zero
StrValue(f) ==
    CASE f.kind = "string" -> <<f.value>>
      [] f.kind = "int" -> FormatInt(f.value)
      [] f.kind = "bool" -> FormatBool(f.value)
      [] f.kind = "stringslice" ->
            Join([i \in 1..Len(f.value[1]) |-> <<f.value[1][i]>>], ",")
      \* an element that is a struct matches no case of the inner switch
      [] f.kind = "structslice" -> <<>>
      [] f.kind = "map" -> JSONText(f.value[1])
      [] f.kind = "struct" -> <<"{", "}">>

\* whether the loop body reaches values.Add for the field
Emitted(f) ==
    /\ ~IsZero(f)
    /\ f.tag # <<>> /\ f.tag # <<"-">>
    /\ f.kind \in {"stringslice", "structslice"} => Len(f.value[1]) # 0
    /\ f.kind = "map" => DOMAIN f.value[1] # {}

\* a mutant: the zero-value test is dropped
QueryValuesKeepZero(fields) ==
    LET kept == SelectSeq(fields, LAMBDA f : f.tag # <<>> /\ f.tag # <<"-">>)
    IN  [i \in 1..Len(kept) |->
            <<kept[i].tag, IF IsZero(kept[i]) THEN <<>> ELSE StrValue(kept[i])>>]

\* the url.Values the loop of structToQuery fills: <<key, value>> per field,
\* the key being the whole json tag
QueryValues(fields) ==
    LET kept == SelectSeq(fields, Emitted)
    IN  [i \in 1..Len(kept) |-> <<kept[i].tag, StrValue(kept[i])>>]

\* url.QueryEscape of one token
QueryEscape(t) ==
    CASE t = "," -> "%2C"
      [] t = "{" -> "%7B"
      [] t = "}" -> "%7D"
      [] t = "\"" -> "%22"
      [] t = ":" -> "%3A"
      [] t = "*" -> "%2A"
      [] OTHER -> t

Escaped(s) == [i \in 1..Len(s) |-> QueryEscape(s[i])]

\* url.Values.Encode: "key=value" pairs, escaped, sorted by key, joined by "&"
Encode(values) ==
    LET sorted == Concat([n \in 1..Len(NameOrder) |->
                      SelectSeq(values, LAMBDA kv : WireName(kv[1]) = NameOrder[n])])
    IN  Join([i \in 1..Len(sorted) |->
                Escaped(sorted[i][1]) \o <<"=">> \o Escaped(sorted[i][2])], "&")

structToQuery(fields) == Encode(QueryValues(fields))

\* MemoryOptions.ToQuery, SearchOptions.ToQuery, ProjectOptions.ToQuery
ToQuery(kind, o) ==
    CASE kind = "MemoryOptions" -> structToQuery(MemoryOptionsFields(o))
      [] kind = "SearchOptions" -> structToQuery(SearchOptionsFields(o))
      [] kind = "ProjectOptions" -> structToQuery(ProjectOptionsFields(o))

----------------------------------------------------------------------------
(* Errors *)

NoError == [type |-> "nil", msg |-> <<>>, cause |-> Nil]

\* errors.New(text)
ErrorsNew(text) == [type |-> "errors.New", msg |-> <<text>>, cause |-> Nil]

\* &APIError{Message: msg}
APIError(msg) == [type |-> "*APIError", msg |-> msg, cause |-> Nil]

\* the error http.Client.Do returns when the round trip fails
TransportError == [type |-> "*url.Error", msg |-> <<"connection refused">>, cause |-> Nil]

\* the error http.NewRequest returns for a URL it cannot parse
RequestError == [type |-> "*url.Error", msg |-> <<"invalid URL escape">>, cause |-> Nil]

\* the error json.Unmarshal returns
SyntaxError == [type |-> "*json.SyntaxError", msg |-> <<"invalid JSON">>, cause |-> Nil]

\* errors.Wrap(err, text) of github.com/pkg/errors
Wrap(err, text) ==
    [type |-> "*errors.withStack", msg |-> <<text, ": ">> \o err.msg, cause |-> Some(err)]

----------------------------------------------------------------------------
(* HTTP responses and their decoding *)

StatusOK == 200

\* resp.StatusCode != http.StatusOK
IsFailureStatus(status) == status # StatusOK

\* fmt.Sprintf("API request failed with status %d: %s", status, string(body))
StatusMessage(status, body) ==
    <<"API request failed with status ">> \o FormatInt(status) \o <<": ">> \o body

\* a mutant: the message gives the status text only
StatusErrorNoBody(resp) == APIError(<<"API request failed with status ">> \o FormatInt(resp.status))

StatusError(resp) == APIError(StatusMessage(resp.status, resp.body))

\* a JSON object as tokens: "{", then key and value in turn, then "}"
ParseObject(b) ==
    IF /\ Len(b) >= 2
       /\ b[1] = "{" /\ b[Len(b)] = "}"
       /\ Len(b) % 2 = 0
       /\ \A i \in 2..(Len(b) - 1) : b[i] \notin {"{", "}", "[", "]"}
    THEN Some([k \in {b[2 * i] : i \in 1..((Len(b) - 2) \div 2)} |->
                LET last == CHOOSE i \in 1..((Len(b) - 2) \div 2) :
                                /\ b[2 * i] = k
                                /\ \A j \in (i + 1)..((Len(b) - 2) \div 2) : b[2 * j] # k
                IN  b[2 * last + 1]])
    ELSE Nil

RECURSIVE ParseObjects(_)
\* the objects of a JSON array's inside: Nil when it is not a run of objects
ParseObjects(ts) ==
    IF ts = <<>> THEN Some(<<>>)
    ELSE IF ts[1] # "{" \/ ~(\E j \in 2..Len(ts) : ts[j] = "}") THEN Nil
    ELSE LET j == CHOOSE x \in 2..Len(ts) :
                      ts[x] = "}" /\ \A i \in 2..(x - 1) : ts[i] # "}"
             first == ParseObject(SubSeq(ts, 1, j))
             rest == ParseObjects(SubSeq(ts, j + 1, Len(ts)))
         IN  IF first = Nil \/ rest = Nil THEN Nil ELSE Some(<<first[1]>> \o rest[1])

ParseArray(b) ==
    IF Len(b) >= 2 /\ b[1] = "[" /\ b[Len(b)] = "]"
    THEN ParseObjects(SubSeq(b, 2, Len(b) - 1))
    ELSE Nil

\* the struct json.Unmarshal fills from an object: a field per wire name,
\* the zero value "" where the object has no such key, other keys ignored
Decoded(obj, names) == [k \in names |-> IF k \in DOMAIN obj THEN obj[k] ELSE ""]

\* json.Unmarshal(body, &v), v a struct with the string fields `names`:
\* the error and the value
UnmarshalStruct(b, names) ==
    LET obj == ParseObject(b)
    IN  IF obj = Nil THEN [err |-> SyntaxError, val |-> Nil]
        ELSE [err |-> NoError, val |-> Some(Decoded(obj[1], names))]

\* json.Unmarshal(body, &v), v a slice of such structs
UnmarshalSlice(b, names) ==
    LET objs == ParseArray(b)
    IN  IF objs = Nil THEN [err |-> SyntaxError, val |-> Nil]
        ELSE [err |-> NoError,
              val |-> Some([i \in 1..Len(objs[1]) |-> Decoded(objs[1][i], names)])]

\* the fields of the response types that the model keeps
MemoryNames == {"id", "memory"}
EventNames == {"message", "status", "event_id"}
PingNames == {"status", "org_id", "project_id", "user_email"}

Unmarshal(b, shape) ==
    CASE shape = "Memory" -> UnmarshalStruct(b, MemoryNames)
      [] shape = "[]Memory" -> UnmarshalSlice(b, MemoryNames)
      [] shape = "[]MemoryAddAEvent" -> UnmarshalSlice(b, EventNames)
      [] shape = "[]MemoryHistory" -> UnmarshalSlice(b, {"id", "memory_id"})
      [] shape = "AllUsers" -> UnmarshalStruct(b, {"next", "previous"})
      [] shape = "ProjectResponse" -> UnmarshalStruct(b, {"custom_instructions"})
      [] shape = "[]Webhook" -> UnmarshalSlice(b, {"webhook_id", "name", "url"})
      [] shape = "Webhook" -> UnmarshalStruct(b, {"webhook_id", "name", "url"})
      [] shape = "Event" -> UnmarshalStruct(b, {"id", "status"})
      [] shape = "GetEventsResponse" -> UnmarshalStruct(b, {"next", "previous"})
      [] shape = "ping" -> UnmarshalStruct(b, PingNames)

----------------------------------------------------------------------------
(* The client: construction *)

DefaultHost == "https://api.mem0.ai"

\* a text url.Parse rejects wherever it stands in a URL
BadEscape == "%zz"

\* http.NewRequest returns an error exactly when the URL does not parse
ValidURL(url) == \A i \in DOMAIN url : url[i] # BadEscape

\* what the transport and the service answer when no request is sent
NoNet == [err |-> FALSE, status |-> 0, body |-> <<>>, readErr |-> FALSE]

\* the response http.Client.Do returns; body is what io.ReadAll returned
\* and readErr whether it also returned an error
Response(n) == [status |-> n.status, body |-> n.body, readErr |-> n.readErr]

validateOrgProject(c) ==
    IF \/ (c.organizationName = "" /\ c.projectName # "")
       \/ (c.organizationName # "" /\ c.projectName = "")
    THEN ErrorsNew("both organizationName and projectName must be provided together")
    ELSE IF \/ (c.organizationID = "" /\ c.projectID # "")
            \/ (c.organizationID # "" /\ c.projectID = "")
    THEN ErrorsNew("both organizationID and projectID must be provided together")
    ELSE NoError

\* the request ping builds: the Authorization header only
PingRequest(c) ==
    [method |-> "GET", url |-> <<c.host, "/v1/ping/">>,
     header |-> [h \in {"Authorization"} |-> <<"Token ", c.apiKey>>],
     body |-> Nil]

\* a mutant: the status field of the ping body is not looked at
pingAnyStatus(c, n) ==
    LET req == PingRequest(c)
        data == Unmarshal(n.body, "ping")
    IN  IF ~ValidURL(req.url) THEN [sent |-> <<>>, err |-> RequestError, client |-> c]
        ELSE IF n.err THEN [sent |-> <<req>>, err |-> TransportError, client |-> c]
        ELSE IF IsFailureStatus(n.status)
        THEN [sent |-> <<req>>, err |-> StatusError(Response(n)), client |-> c]
        ELSE IF data.err # NoError THEN [sent |-> <<req>>, err |-> data.err, client |-> c]
        ELSE [sent |-> <<req>>, err |-> NoError,
              client |-> [c EXCEPT !.organizationID = data.val[1]["org_id"],
                                   !.projectID = data.val[1]["project_id"],
                                   !.telemetryID = data.val[1]["user_email"]]]

\* ping: the requests sent, the error returned and the client as ping leaves it
ping(c, n) ==
    LET req == PingRequest(c)
        data == Unmarshal(n.body, "ping")
    IN  IF ~ValidURL(req.url) THEN [sent |-> <<>>, err |-> RequestError, client |-> c]
        ELSE IF n.err THEN [sent |-> <<req>>, err |-> TransportError, client |-> c]
        ELSE IF IsFailureStatus(n.status)
        THEN [sent |-> <<req>>, err |-> StatusError(Response(n)), client |-> c]
        ELSE IF data.err # NoError THEN [sent |-> <<req>>, err |-> data.err, client |-> c]
        ELSE IF data.val[1]["status"] # "ok"
        THEN [sent |-> <<req>>, err |-> APIError(<<"API key is invalid">>), client |-> c]
        ELSE [sent |-> <<req>>, err |-> NoError,
              client |-> [c EXCEPT !.organizationID = data.val[1]["org_id"],
                                   !.projectID = data.val[1]["project_id"],
                                   !.telemetryID = data.val[1]["user_email"]]]

\* the client NewMemoryClient builds before it validates and pings
NewClient(options) ==
    [apiKey |-> options.APIKey,
     host |-> IF options.Host = "" THEN DefaultHost ELSE options.Host,
     organizationName |-> options.OrganizationName,
     projectName |-> options.ProjectName,
     organizationID |-> options.OrganizationID,
     projectID |-> options.ProjectID,
     telemetryID |-> ""]

\* a mutant: the API key is not checked
NewMemoryClientNoKeyCheck(options, n) ==
    LET c == NewClient(options)
        p == ping(c, n)
    IN  IF validateOrgProject(c) # NoError
        THEN [val |-> Nil, err |-> validateOrgProject(c), sent |-> <<>>]
        ELSE IF p.err # NoError THEN [val |-> Nil, err |-> p.err, sent |-> p.sent]
        ELSE [val |-> Some(p.client), err |-> NoError, sent |-> p.sent]

\* a mutant: the ping comes before the validation of the pairs
NewMemoryClientPingFirst(options, n) ==
    LET c == NewClient(options)
        p == ping(c, n)
    IN  IF options.APIKey = ""
        THEN [val |-> Nil, err |-> ErrorsNew("API key is required"), sent |-> <<>>]
        ELSE IF p.err # NoError THEN [val |-> Nil, err |-> p.err, sent |-> p.sent]
        ELSE IF validateOrgProject(c) # NoError
        THEN [val |-> Nil, err |-> validateOrgProject(c), sent |-> p.sent]
        ELSE [val |-> Some(p.client), err |-> NoError, sent |-> p.sent]

\* NewMemoryClient: the client and the error returned, the requests sent
NewMemoryClient(options, n) ==
    LET c == NewClient(options)
        p == ping(c, n)
    IN  IF options.APIKey = ""
        THEN [val |-> Nil, err |-> ErrorsNew("API key is required"), sent |-> <<>>]
        ELSE IF validateOrgProject(c) # NoError
        THEN [val |-> Nil, err |-> validateOrgProject(c), sent |-> <<>>]
        ELSE IF p.err # NoError THEN [val |-> Nil, err |-> p.err, sent |-> p.sent]
        ELSE [val |-> Some(p.client), err |-> NoError, sent |-> p.sent]

----------------------------------------------------------------------------
(* The client: request dispatch *)

\* a mutant: the caller-identity header is never set
doRequestNoIdentity(c, method, path, body, n) ==
    LET url == <<c.host>> \o path
        req == [method |-> method, url |-> url,
                header |-> [h \in {"Authorization", "Content-Type"} |->
                              IF h = "Authorization" THEN <<"Token ", c.apiKey>>
                              ELSE <<"application/json">>],
                body |-> body]
    IN  IF ~ValidURL(url) THEN [sent |-> <<>>, err |-> RequestError, resp |-> Nil]
        ELSE IF n.err THEN [sent |-> <<req>>, err |-> TransportError, resp |-> Nil]
        ELSE [sent |-> <<req>>, err |-> NoError, resp |-> Some(Response(n))]

\* a mutant: an error of request construction or of the transport is
\* wrapped before it is returned
doRequestWrapping(c, method, path, body, n) ==
    LET url == <<c.host>> \o path
        base == [h \in {"Authorization", "Content-Type"} |->
                    IF h = "Authorization" THEN <<"Token ", c.apiKey>>
                    ELSE <<"application/json">>]
        req == [method |-> method, url |-> url,
                header |-> IF c.telemetryID # ""
                           THEN MapSet(base, "Mem0-User-ID", <<c.telemetryID>>)
                           ELSE base,
                body |-> body]
    IN  IF ~ValidURL(url)
        THEN [sent |-> <<>>, err |-> Wrap(RequestError, "request failed"), resp |-> Nil]
        ELSE IF n.err
        THEN [sent |-> <<req>>, err |-> Wrap(TransportError, "request failed"),
              resp |-> Nil]
        ELSE [sent |-> <<req>>, err |-> NoError, resp |-> Some(Response(n))]

\* doRequest: the requests sent, the response and the error returned.
\* body is Nil or Some(value to marshal as JSON).
doRequest(c, method, path, body, n) ==
    LET url == <<c.host>> \o path
        base == [h \in {"Authorization", "Content-Type"} |->
                    IF h = "Authorization" THEN <<"Token ", c.apiKey>>
                    ELSE <<"application/json">>]
        req == [method |-> method, url |-> url,
                header |-> IF c.telemetryID # ""
                           THEN MapSet(base, "Mem0-User-ID", <<c.telemetryID>>)
                           ELSE base,
                body |-> body]
    IN  IF ~ValidURL(url) THEN [sent |-> <<>>, err |-> RequestError, resp |-> Nil]
        ELSE IF n.err THEN [sent |-> <<req>>, err |-> TransportError, resp |-> Nil]
        ELSE [sent |-> <<req>>, err |-> NoError, resp |-> Some(Response(n))]

\* a mutant: a request answered with a failure status is sent once more
HandleRetry(r, shape) ==
    IF r.err # NoError THEN [val |-> Nil, err |-> r.err, sent |-> r.sent]
    ELSE IF IsFailureStatus(r.resp[1].status)
    THEN [val |-> Nil, err |-> StatusError(r.resp[1]), sent |-> r.sent \o r.sent]
    ELSE IF shape = "" THEN [val |-> Nil, err |-> NoError, sent |-> r.sent]
    ELSE [val |-> Unmarshal(r.resp[1].body, shape).val,
          err |-> Unmarshal(r.resp[1].body, shape).err, sent |-> r.sent]

\* What every operation does with the outcome r of doRequest: return the
\* transport error; read the body, its read error dropped; return an
\* APIError unless the status is 200; decode the body into `shape` ("" for an
\* operation without a result) and wrap a decoding error.
Handle(r, shape) ==
    IF r.err # NoError THEN [val |-> Nil, err |-> r.err, sent |-> r.sent]
    ELSE IF IsFailureStatus(r.resp[1].status)
    THEN [val |-> Nil, err |-> StatusError(r.resp[1]), sent |-> r.sent]
    ELSE IF shape = "" THEN [val |-> Nil, err |-> NoError, sent |-> r.sent]
    ELSE LET d == Unmarshal(r.resp[1].body, shape)
         IN  IF d.err # NoError
             THEN [val |-> Nil, err |-> Wrap(d.err, "failed to unmarshal response"),
                   sent |-> r.sent]
             ELSE [val |-> d.val, err |-> NoError, sent |-> r.sent]

----------------------------------------------------------------------------
(* The client: operations.  Each returns the result value (Nil for none),  *)
(* the error and the requests sent; Search and GetAll also the caller's    *)
(* options object as the call leaves it.                                   *)

WithOpts(h, after) == [val |-> h.val, err |-> h.err, sent |-> h.sent, opts |-> after]

MessageKinds == {"string", "[]string", "Message", "[]Message"}

\* the options with the client's organization and project written over them
WithClientIDs(c, mo) ==
    LET o1 == IF c.organizationName # "" /\ c.projectName # ""
              THEN [mo EXCEPT !.OrgName = c.organizationName,
                              !.ProjectName = c.projectName]
              ELSE mo
    IN  IF c.organizationID # "" /\ c.projectID # ""
        THEN [o1 EXCEPT !.OrgID = c.organizationID, !.ProjectID = c.projectID]
        ELSE o1

\* a mutant: the messages built from the argument have the role "assistant"
preparePayloadOtherRole(c, messages, options) ==
    LET msgs == CASE messages.kind = "string" -> <<Message("assistant", messages.val)>>
                  [] messages.kind = "[]string" ->
                        [i \in 1..Len(messages.val) |-> Message("assistant", messages.val[i])]
                  [] messages.kind = "Message" -> <<messages.val>>
                  [] OTHER -> messages.val
        o == WithClientIDs(c, options)
        p1 == MapMerge([k \in {"messages"} |-> msgs], MarshalOptions(MemoryOptionsFields(o)))
        p2 == IF IsDefault(o.Version) THEN MapSet(p1, "version", DefaultAPIVersion) ELSE p1
    IN  IF messages.kind \notin MessageKinds
        THEN [payload |-> Nil, err |-> ErrorsNew("invalid messages type")]
        ELSE [payload |-> Some(p2), err |-> NoError]

\* preparePayload: the payload (Nil on error) and the error.  The merge loop
\* skips nil values; the map decoded from the marshalled options holds none,
\* every field being omitempty.
preparePayload(c, messages, options) ==
    LET msgs == CASE messages.kind = "string" -> <<Message("user", messages.val)>>
                  [] messages.kind = "[]string" ->
                        [i \in 1..Len(messages.val) |-> Message("user", messages.val[i])]
                  [] messages.kind = "Message" -> <<messages.val>>
                  [] OTHER -> messages.val
        o == WithClientIDs(c, options)
        p1 == MapMerge([k \in {"messages"} |-> msgs], MarshalOptions(MemoryOptionsFields(o)))
        p2 == IF IsDefault(o.Version) THEN MapSet(p1, "version", DefaultAPIVersion) ELSE p1
    IN  IF messages.kind \notin MessageKinds
        THEN [payload |-> Nil, err |-> ErrorsNew("invalid messages type")]
        ELSE IF "messages" \notin DOMAIN p1
        THEN [payload |-> Nil, err |-> ErrorsNew("messages field is required")]
        ELSE [payload |-> Some(p2), err |-> NoError]

AddAsync(c, messages, options, n) ==
    LET pp == preparePayload(c, messages, options)
    IN  IF pp.err # NoError THEN [val |-> Nil, err |-> pp.err, sent |-> <<>>]
        ELSE Handle(doRequest(c, "POST", <<"/v1/memories/">>, pp.payload, n),
                    "[]MemoryAddAEvent")

Add(c, messages, options, n) ==
    LET pp == preparePayload(c, messages, options)
    IN  IF pp.err # NoError THEN [val |-> Nil, err |-> pp.err, sent |-> <<>>]
        ELSE Handle(doRequest(c, "POST", <<"/v1/memories/">>,
                              Some(MapSet(pp.payload[1], "async_mode", FALSE)), n),
                    "[]Memory")

Update(c, memoryID, message, n) ==
    Handle(doRequest(c, "PUT", <<"/v1/memories/", memoryID, "/">>,
                     Some([k \in {"text"} |-> message]), n), "[]Memory")

Get(c, memoryID, n) ==
    Handle(doRequest(c, "GET", <<"/v1/memories/", memoryID, "/">>, Nil, n), "Memory")

\* the fields of GetAll's getAllRequest
getAllRequestFields(req) ==
    << Field("Page", OmitEmptyTag("page"), "int", req.Page),
       Field("PageSize", OmitEmptyTag("page_size"), "int", req.PageSize),
       Field("OrgID", OmitEmptyTag("org_id"), "string", req.OrgID),
       Field("ProjectID", OmitEmptyTag("project_id"), "string", req.ProjectID),
       Field("Fields", OmitEmptyTag("fields"), "stringslice", req.Fields),
       Field("Filters", OmitEmptyTag("filters"), "map", req.Filters) >>

\* options.Version of a *SearchOptions selects the field SearchOptions
\* declares, which hides the Version of the embedded MemoryOptions
GetAll(c, options, n) ==
    LET zero == [Page |-> 0, PageSize |-> 0, OrgID |-> "", ProjectID |-> "",
                 Fields |-> Nil, Filters |-> Nil]
        o == options[1]
        r0 == [Page |-> o.MemoryOptions.Page, PageSize |-> o.MemoryOptions.PageSize,
               Fields |-> o.Fields, Filters |-> o.MemoryOptions.Filters,
               OrgID |-> o.MemoryOptions.OrgID, ProjectID |-> o.MemoryOptions.ProjectID]
        r1 == [r0 EXCEPT !.OrgID = IF @ = "" THEN c.organizationID ELSE @,
                         !.ProjectID = IF @ = "" THEN c.projectID ELSE @,
                         !.Filters = IF @ = Nil THEN Some(EmptyMap) ELSE @]
        r2 == IF IsDefault(o.Version)
              THEN [r1 EXCEPT !.Filters = fixAPIV2Filters(@)] ELSE r1
        req == IF options = Nil THEN zero ELSE r2
        \* the caller's map is the one fixAPIV2Filters changes, unless it was nil
        after == IF options = Nil THEN Nil
                 ELSE IF o.MemoryOptions.Filters # Nil
                 THEN Some([o EXCEPT !.MemoryOptions.Filters = r2.Filters])
                 ELSE options
    IN  WithOpts(Handle(doRequest(c, "POST", <<"/v2/memories/">>,
                                  Some(MarshalOptions(getAllRequestFields(req))), n),
                        "[]Memory"),
                 after)

\* Search writes the client's organization and project through the options
\* pointer; the filters it normalizes are those of the decoded copy.
Search(c, query, options, n) ==
    LET o0 == IF options = Nil THEN ZeroSearchOptions ELSE options[1]
        o == [o0 EXCEPT !.MemoryOptions = WithClientIDs(c, @)]
        p1 == MapMerge([k \in {"query"} |-> query], MarshalOptions(SearchOptionsFields(o)))
        p2 == IF "filters" \in DOMAIN p1 /\ IsDefault(o.Version)
              THEN MapSet(MapSet(p1, "filters", fixAPIV2Filters(Some(p1["filters"]))[1]),
                          "filter_memories", TRUE)
              ELSE p1
    IN  WithOpts(Handle(doRequest(c, "POST", <<"/v2/memories/search/">>, Some(p2), n),
                        "[]Memory"),
                 IF options = Nil THEN Nil ELSE Some(o))

\* a mutant: the body of the response is decoded as a memory record
DeleteDecoding(c, memoryID, n) ==
    Handle(doRequest(c, "DELETE", <<"/v1/memories/", memoryID, "/">>, Nil, n), "Memory")

Delete(c, memoryID, n) ==
    Handle(doRequest(c, "DELETE", <<"/v1/memories/", memoryID, "/">>, Nil, n), "")

\* path += "?" + query when the query is not empty
WithQuery(path, query) == IF query # <<>> THEN path \o <<"?">> \o query ELSE path

DeleteAll(c, options, n) ==
    Handle(doRequest(c, "DELETE",
                     WithQuery(<<"/v1/memories/">>, ToQuery("MemoryOptions", options)),
                     Nil, n), "")

History(c, memoryID, n) ==
    Handle(doRequest(c, "GET", <<"/v1/memories/", memoryID, "/history/">>, Nil, n),
           "[]MemoryHistory")

Users(c, n) == Handle(doRequest(c, "GET", <<"/v1/users/">>, Nil, n), "AllUsers")

DeleteUser(c, entityID, n) ==
    Handle(doRequest(c, "DELETE", <<"/v1/users/", entityID, "/">>, Nil, n), "")

DeleteUsers(c, n) == Handle(doRequest(c, "DELETE", <<"/v1/users/">>, Nil, n), "")

BatchUpdate(c, memories, n) ==
    Handle(doRequest(c, "PUT", <<"/v1/memories/batch/">>, Some(memories), n), "")

BatchDelete(c, memoryIDs, n) ==
    Handle(doRequest(c, "DELETE", <<"/v1/memories/batch/">>, Some(memoryIDs), n), "")

GetProject(c, options, n) ==
    Handle(doRequest(c, "GET",
                     WithQuery(<<"/v1/project/">>, ToQuery("ProjectOptions", options)),
                     Nil, n), "ProjectResponse")

UpdateProject(c, payload, n) ==
    Handle(doRequest(c, "PUT", <<"/v1/project/">>, Some(payload), n), "")

GetWebhooks(c, projectID, n) ==
    Handle(doRequest(c, "GET",
                     IF projectID # "" THEN <<"/v1/webhooks/", "?project_id=", projectID>>
                     ELSE <<"/v1/webhooks/">>,
                     Nil, n), "[]Webhook")

CreateWebhook(c, webhook, n) ==
    Handle(doRequest(c, "POST", <<"/v1/webhooks/">>, Some(webhook), n), "Webhook")

UpdateWebhook(c, webhook, n) ==
    Handle(doRequest(c, "PUT", <<"/v1/webhooks/">>, Some(webhook), n), "")

DeleteWebhook(c, webhookID, n) ==
    Handle(doRequest(c, "DELETE", <<"/v1/webhooks/", webhookID, "/">>, Nil, n), "")

Feedback(c, payload, n) ==
    Handle(doRequest(c, "POST", <<"/v1/feedback/">>, Some(payload), n), "")

GetEvent(c, eventID, n) ==
    Handle(doRequest(c, "GET", <<"/v1/event/", eventID, "/">>, Nil, n), "Event")

\* the cursor, when given, is used as the path; a doRequest error is wrapped
GetEvents(c, cursor, n) ==
    LET r == doRequest(c, "GET", IF cursor # "" THEN <<cursor>> ELSE <<"/v1/events/">>,
                       Nil, n)
    IN  IF r.err # NoError
        THEN [val |-> Nil, err |-> Wrap(r.err, "failed to get events"), sent |-> r.sent]
        ELSE Handle(r, "GetEventsResponse")

----------------------------------------------------------------------------
(* Inputs: what the caller passes and what the service answers *)

Statuses == {200, 201, 204, 429, 500}

\* the i-th memory record of a response
MemoryObject(i) == <<"{", "id", Digit[i + 1], "memory", "likes tea", "}">>

MemoryArray(k) == <<"[">> \o Concat([i \in 1..k |-> MemoryObject(i)]) \o <<"]">>

Bodies ==
    {<<>>, <<"rate limited">>, MemoryObject(1)} \cup {MemoryArray(k) : k \in 0..MaxItems}

PingBody(status, org, proj, email) ==
    <<"{", "status", status, "org_id", org, "project_id", proj, "user_email", email, "}">>

PingBodies ==
    {<<>>, <<"rate limited">>, PingBody("error", "org-1", "proj-1", "u@x"),
     PingBody("ok", "", "", ""), PingBody("ok", "org-1", "proj-1", "u@x"),
     PingBody("ok", "org-1", "", "")}

\* The round trip fails, or a response arrives; reading its body gives all
\* of it, or fails having read nothing or (a record, for one) everything.
Outcomes(bodies) ==
    {[err |-> TRUE, status |-> 0, body |-> <<>>, readErr |-> FALSE]}
    \cup {[err |-> FALSE, status |-> s, body |-> b, readErr |-> FALSE] :
            s \in Statuses, b \in bodies}
    \cup {[err |-> FALSE, status |-> s, body |-> b, readErr |-> TRUE] :
            s \in Statuses, b \in {<<>>} \cup (bodies \cap {MemoryObject(1)})}

ClientOptionsSet ==
    [APIKey : {"", "test-key"}, Host : {"", "http://h"},
     OrganizationName : {"", "acme"}, ProjectName : {"", "tea"},
     OrganizationID : {"", "org-c"}, ProjectID : {"", "proj-c"}]

IDs == {"", "m1", BadEscape}

FilterMap(keys) == [k \in keys |-> "x1"]

FilterInputs ==
    {Nil} \cup {Some(FilterMap(K)) : K \in {{}, {"agent_id"}, {"user_id", "k"}}}

\* the option fields beside version and filters, all set
Populated ==
    [ZeroMemoryOptions EXCEPT !.UserID = "u1", !.Timestamp = MaxInt,
        !.Metadata = Some(FilterMap({"k"})), !.OrgID = "org-c", !.ProjectID = "proj-c",
        !.Infer = TRUE, !.Page = 1, !.PageSize = MaxInt,
        !.Messages = Some(<<Message("assistant", "noted")>>)]

MemoryOptionsInputs ==
    {[base EXCEPT !.Version = v] :
        base \in {ZeroMemoryOptions, Populated,
                  [ZeroMemoryOptions EXCEPT !.Metadata = Some(EmptyMap),
                                            !.Messages = Some(<<>>)]},
        v \in {"", V1, V2}}

SearchOptionsInputs ==
    {Nil} \cup
    {Some([MemoryOptions |-> [base EXCEPT !.Version = mv, !.Filters = f],
           TopK |-> IF base = Populated THEN MaxInt ELSE 0,
           Fields |-> IF base = Populated THEN Some(<<"id">>) ELSE Nil,
           Rerank |-> base = Populated,
           Version |-> v]) :
        base \in {ZeroMemoryOptions, [Populated EXCEPT !.Messages = Nil]},
        mv \in {"", V1}, v \in {"", V1, V2}, f \in FilterInputs}

Strings(k) == [i \in 1..k |-> "Hello"]

MessagesInputs ==
    {[kind |-> "string", val |-> "Hello"],
     [kind |-> "[]string", val |-> <<>>],
     [kind |-> "[]string", val |-> Strings(MaxItems)],
     [kind |-> "Message", val |-> Message("user", "Hello")],
     [kind |-> "[]Message", val |-> <<Message("user", "Hello")>>],
     [kind |-> "int", val |-> <<>>]}

ProjectOptionsInputs ==
    {[Fields |-> f] : f \in {Nil, Some(<<>>), Some(<<"a">>), Some(Strings(MaxItems))}}


\* the options values ToQuery is called with: every field zero or not, a
\* slice or map nil, empty or filled
ToQueryInputs ==
    {<<"MemoryOptions",
       [ZeroMemoryOptions EXCEPT !.Version = v, !.UserID = u, !.Timestamp = t,
            !.Metadata = md, !.Filters = f, !.Infer = b, !.Page = pg, !.Messages = ms]>> :
        v \in {"", V1}, u \in {"", "u1"}, t \in 0..MaxInt,
        md \in {Nil, Some(EmptyMap), Some(FilterMap({"k"}))},
        f \in {Nil, Some(FilterMap({"user_id", "agent_id"}))},
        b \in BOOLEAN, pg \in {0, 12},
        ms \in {Nil, Some(<<>>), Some(<<Message("user", "Hello")>>)}}
    \cup
    {<<"SearchOptions",
       [MemoryOptions |-> mo, TopK |-> k, Fields |-> fs, Rerank |-> b, Version |-> v]>> :
        mo \in {ZeroMemoryOptions, Populated, [ZeroMemoryOptions EXCEPT !.Version = V1]},
        k \in 0..MaxInt, fs \in {Nil, Some(<<>>), Some(<<"a">>), Some(Strings(MaxItems))},
        b \in BOOLEAN, v \in {"", V1, V2}}
    \cup {<<"ProjectOptions", o>> : o \in ProjectOptionsInputs}

\* GetEvents' cursor: none, a path, or the URL of the next page as the
\* service gives it in GetEventsResponse.Next
Cursors == {"", "/v1/events/?page=2", "https://api.mem0.ai/v1/events/?page=2"}

BatchUpdateInputs ==
    {[i \in 1..k |-> [memoryId |-> Digit[i + 1], text |-> "new text"]] : k \in {0, MaxItems}}

BatchDeleteInputs == {[i \in 1..k |-> Digit[i + 1]] : k \in {0, MaxItems}}

UpdateProjectInputs == {[custom_instructions |-> t] : t \in {"", "be brief"}}

WebhookInputs ==
    {[eventTypes |-> <<"memory_add">>, projectId |-> "proj-1", webhookId |-> w,
      name |-> "hook", url |-> "https://example.com/webhook"] : w \in {"", "wh1"}}

FeedbackInputs ==
    {[memory_id |-> "m1", feedback |-> f, feedback_reason |-> ""] : f \in {"", "POSITIVE"}}

----------------------------------------------------------------------------
(* The state machine: one caller, one call at a time *)

NoCall == [op |-> "none", args |-> <<>>]

NoRet == [val |-> Nil, err |-> NoError]

Init ==
    /\ client = Nil
    /\ call = NoCall
    /\ net = NoNet
    /\ wire = <<>>
    /\ ret = NoRet
    /\ opts = Nil

\* no call is in progress and NewMemoryClient has returned a client
Ready == call.op = "none" /\ client # Nil

\* a call of operation op with arguments args returns r, having been
\* answered n if it sent a request
Returns(op, args, r, n, after) ==
    /\ call' = [op |-> op, args |-> args]
    /\ ret' = [val |-> r.val, err |-> r.err]
    /\ wire' = r.sent
    /\ net' = IF r.sent = <<>> THEN NoNet ELSE n
    /\ opts' = after

CallNewMemoryClient ==
    /\ call.op = "none" /\ client = Nil
    /\ \E o \in ClientOptionsSet, n \in Outcomes(PingBodies) :
          LET r == NewMemoryClient(o, n)
          IN  /\ client' = r.val
              /\ Returns("NewMemoryClient", <<o>>, r, n, Nil)

\* the caller takes the result; the call's payload, request and response
\* are dropped
Proceed ==
    /\ call.op # "none"
    /\ call' = NoCall /\ net' = NoNet /\ wire' = <<>> /\ ret' = NoRet /\ opts' = Nil
    /\ UNCHANGED client

\* the caller encodes an options value; no client is needed for it
CallToQuery ==
    /\ call.op = "none"
    /\ \E in \in ToQueryInputs :
          Returns("ToQuery", in,
                  [val |-> Some(ToQuery(in[1], in[2])), err |-> NoError, sent |-> <<>>],
                  NoNet, Nil)
    /\ UNCHANGED client

CallAddAsync ==
    /\ Ready
    /\ \E m \in MessagesInputs, o \in MemoryOptionsInputs, n \in Outcomes(Bodies) :
          Returns("AddAsync", <<m, o>>, AddAsync(client[1], m, o, n), n, Nil)
    /\ UNCHANGED client

CallAdd ==
    /\ Ready
    /\ \E m \in MessagesInputs, o \in MemoryOptionsInputs, n \in Outcomes(Bodies) :
          Returns("Add", <<m, o>>, Add(client[1], m, o, n), n, Nil)
    /\ UNCHANGED client

\* a mutant: GetAll keeps the organization and project ids of its options
\* in the client
CallGetAllStoringIDs ==
    /\ Ready
    /\ \E o \in SearchOptionsInputs, n \in Outcomes(Bodies) :
          LET r == GetAll(client[1], o, n)
          IN  /\ Returns("GetAll", <<o>>, r, n, r.opts)
              /\ client' = IF o # Nil /\ o[1].MemoryOptions.OrgID # ""
                            THEN Some([client[1] EXCEPT
                                         !.organizationID = o[1].MemoryOptions.OrgID,
                                         !.projectID = o[1].MemoryOptions.ProjectID])
                            ELSE client

CallGetAll ==
    /\ Ready
    /\ \E o \in SearchOptionsInputs, n \in Outcomes(Bodies) :
          LET r == GetAll(client[1], o, n)
          IN  Returns("GetAll", <<o>>, r, n, r.opts)
    /\ UNCHANGED client

CallSearch ==
    /\ Ready
    /\ \E q \in {"tea"}, o \in SearchOptionsInputs, n \in Outcomes(Bodies) :
          LET r == Search(client[1], q, o, n)
          IN  Returns("Search", <<q, o>>, r, n, r.opts)
    /\ UNCHANGED client

CallUpdate ==
    /\ Ready
    /\ \E x \in IDs, n \in Outcomes(Bodies) :
          Returns("Update", <<x>>, Update(client[1], x, "new text", n), n, Nil)
    /\ UNCHANGED client

CallGet ==
    /\ Ready
    /\ \E x \in IDs, n \in Outcomes(Bodies) :
          Returns("Get", <<x>>, Get(client[1], x, n), n, Nil)
    /\ UNCHANGED client

CallDelete ==
    /\ Ready
    /\ \E x \in IDs, n \in Outcomes(Bodies) :
          Returns("Delete", <<x>>, Delete(client[1], x, n), n, Nil)
    /\ UNCHANGED client

CallHistory ==
    /\ Ready
    /\ \E x \in IDs, n \in Outcomes(Bodies) :
          Returns("History", <<x>>, History(client[1], x, n), n, Nil)
    /\ UNCHANGED client

CallDeleteUser ==
    /\ Ready
    /\ \E x \in IDs, n \in Outcomes(Bodies) :
          Returns("DeleteUser", <<x>>, DeleteUser(client[1], x, n), n, Nil)
    /\ UNCHANGED client

CallGetWebhooks ==
    /\ Ready
    /\ \E x \in IDs, n \in Outcomes(Bodies) :
          Returns("GetWebhooks", <<x>>, GetWebhooks(client[1], x, n), n, Nil)
    /\ UNCHANGED client

CallDeleteWebhook ==
    /\ Ready
    /\ \E x \in IDs, n \in Outcomes(Bodies) :
          Returns("DeleteWebhook", <<x>>, DeleteWebhook(client[1], x, n), n, Nil)
    /\ UNCHANGED client

CallGetEvent ==
    /\ Ready
    /\ \E x \in IDs, n \in Outcomes(Bodies) :
          Returns("GetEvent", <<x>>, GetEvent(client[1], x, n), n, Nil)
    /\ UNCHANGED client

CallGetEvents ==
    /\ Ready
    /\ \E x \in Cursors, n \in Outcomes(Bodies) :
          Returns("GetEvents", <<x>>, GetEvents(client[1], x, n), n, Nil)
    /\ UNCHANGED client

CallDeleteAll ==
    /\ Ready
    /\ \E x \in MemoryOptionsInputs, n \in Outcomes(Bodies) :
          Returns("DeleteAll", <<x>>, DeleteAll(client[1], x, n), n, Nil)
    /\ UNCHANGED client

CallGetProject ==
    /\ Ready
    /\ \E x \in ProjectOptionsInputs, n \in Outcomes(Bodies) :
          Returns("GetProject", <<x>>, GetProject(client[1], x, n), n, Nil)
    /\ UNCHANGED client

CallBatchUpdate ==
    /\ Ready
    /\ \E x \in BatchUpdateInputs, n \in Outcomes(Bodies) :
          Returns("BatchUpdate", <<x>>, BatchUpdate(client[1], x, n), n, Nil)
    /\ UNCHANGED client

CallBatchDelete ==
    /\ Ready
    /\ \E x \in BatchDeleteInputs, n \in Outcomes(Bodies) :
          Returns("BatchDelete", <<x>>, BatchDelete(client[1], x, n), n, Nil)
    /\ UNCHANGED client

CallUpdateProject ==
    /\ Ready
    /\ \E x \in UpdateProjectInputs, n \in Outcomes(Bodies) :
          Returns("UpdateProject", <<x>>, UpdateProject(client[1], x, n), n, Nil)
    /\ UNCHANGED client

CallCreateWebhook ==
    /\ Ready
    /\ \E x \in WebhookInputs, n \in Outcomes(Bodies) :
          Returns("CreateWebhook", <<x>>, CreateWebhook(client[1], x, n), n, Nil)
    /\ UNCHANGED client

CallUpdateWebhook ==
    /\ Ready
    /\ \E x \in WebhookInputs, n \in Outcomes(Bodies) :
          Returns("UpdateWebhook", <<x>>, UpdateWebhook(client[1], x, n), n, Nil)
    /\ UNCHANGED client

CallFeedback ==
    /\ Ready
    /\ \E x \in FeedbackInputs, n \in Outcomes(Bodies) :
          Returns("Feedback", <<x>>, Feedback(client[1], x, n), n, Nil)
    /\ UNCHANGED client

CallUsers ==
    /\ Ready
    /\ \E n \in Outcomes(Bodies) : Returns("Users", <<>>, Users(client[1], n), n, Nil)
    /\ UNCHANGED client

CallDeleteUsers ==
    /\ Ready
    /\ \E n \in Outcomes(Bodies) : Returns("DeleteUsers", <<>>, DeleteUsers(client[1], n), n, Nil)
    /\ UNCHANGED client

Next ==
    \/ CallNewMemoryClient
    \/ CallToQuery
    \/ CallAddAsync
    \/ CallAdd
    \/ CallGetAll
    \/ CallSearch
    \/ CallUpdate
    \/ CallGet
    \/ CallDelete
    \/ CallHistory
    \/ CallDeleteUser
    \/ CallGetWebhooks
    \/ CallDeleteWebhook
    \/ CallGetEvent
    \/ CallGetEvents
    \/ CallDeleteAll
    \/ CallGetProject
    \/ CallBatchUpdate
    \/ CallBatchDelete
    \/ CallUpdateProject
    \/ CallCreateWebhook
    \/ CallUpdateWebhook
    \/ CallFeedback
    \/ CallUsers
    \/ CallDeleteUsers
    \/ Proceed

Spec == Init /\ [][Next]_vars

----------------------------------------------------------------------------
(* The filter normalizer on its own: every filter mapping goes through it *)

FilterKeys == {"user_id", "app_id", "run_id", "agent_id", "k"}

FilterValues == {"x1", "x2"}

\* nil and every mapping from some of the keys to values
AllFilters ==
    {Nil} \cup UNION {{Some(f) : f \in [K -> FilterValues]} : K \in SUBSET FilterKeys}

InitFilters ==
    /\ client = Nil
    /\ call \in {[op |-> "fixAPIV2Filters", args |-> <<f>>] : f \in AllFilters}
    /\ net = NoNet
    /\ wire = <<>>
    /\ ret = NoRet
    /\ opts = Nil

\* the mapping is normalized: ret holds the mapping returned and opts the
\* caller's mapping, which is the same map unless the caller passed nil
NormalizeFilters ==
    /\ call.op = "fixAPIV2Filters" /\ ret.val = Nil
    /\ ret' = [val |-> fixAPIV2Filters(call.args[1]), err |-> NoError]
    /\ opts' = IF call.args[1] = Nil THEN Nil ELSE fixAPIV2Filters(call.args[1])
    /\ UNCHANGED <<client, call, net, wire>>

SpecFilters == InitFilters /\ [][NormalizeFilters]_vars

----------------------------------------------------------------------------
(* Properties *)

DefaultedKeys == {"user_id", "app_id", "run_id"}

\* a request the call sent whose JSON body is a mapping
SentBody(i) == wire[i].body[1]

\* the status is in the success range 200..299
SuccessStatus(status) == status >= 200 /\ status <= 299

\* a response arrived for the call's request
Answered == wire # <<>> /\ ~net.err

\* C1: for every filter mapping f, nil included, fixAPIV2Filters(f) has no
\* agent_id key; has user_id, app_id and run_id, each with f's value when f
\* has the key and with "*" when not; has every other key of f with f's
\* value; and has no further key.
C1_FiltersNormalized ==
    (call.op = "fixAPIV2Filters" /\ ret.val # Nil) =>
        LET f == IF call.args[1] = Nil THEN EmptyMap ELSE call.args[1][1]
            g == ret.val[1]
        IN  /\ "agent_id" \notin DOMAIN g
            /\ \A k \in DefaultedKeys :
                  k \in DOMAIN g /\ g[k] = IF k \in DOMAIN f THEN f[k] ELSE "*"
            /\ \A k \in DOMAIN f \ {"agent_id"} : k \in DOMAIN g /\ g[k] = f[k]
            /\ DOMAIN g \subseteq (DOMAIN f \ {"agent_id"}) \cup DefaultedKeys

\* a mapping with agent_id and another key, with app_id and without user_id,
\* has been normalized
C1_Witness ==
    /\ call.op = "fixAPIV2Filters" /\ ret.val # Nil /\ call.args[1] # Nil
    /\ {"agent_id", "app_id", "k"} \subseteq DOMAIN call.args[1][1]
    /\ "user_id" \notin DOMAIN call.args[1][1]
    /\ ret.val[1]["user_id"] = "*" /\ ret.val[1]["app_id"] = call.args[1][1]["app_id"]

\* the options pointer a Search or GetAll call was given
CallOptions == IF call.op = "Search" THEN call.args[2] ELSE call.args[1]

\* neither Version field of the options pins a version other than v2
NoVersionPinned(options) ==
    options = Nil
    \/ (options[1].Version \in {"", "v2"} /\ options[1].MemoryOptions.Version \in {"", "v2"})

\* C2: on the default version path every request of Search and of GetAll
\* carries a filters mapping with user_id, app_id and run_id and without
\* agent_id, whatever the caller passes (nil options, nil or empty Filters).
C2_RequestsCarryNormalizedFilters ==
    (call.op \in {"Search", "GetAll"} /\ NoVersionPinned(CallOptions)) =>
        \A i \in DOMAIN wire :
            /\ "filters" \in DOMAIN SentBody(i)
            /\ DefaultedKeys \subseteq DOMAIN SentBody(i)["filters"]
            /\ "agent_id" \notin DOMAIN SentBody(i)["filters"]

\* the filters of the caller's options as JSON would carry them: the
\* mapping, or none when it is nil or empty
CallerFilters(options) ==
    IF options = Nil THEN Nil
    ELSE IF Len0(options[1].MemoryOptions.Filters) = 0 THEN Nil
    ELSE options[1].MemoryOptions.Filters

\* C3: when either Version field of the options pins v1, Search and GetAll
\* bypass normalization: the filters sent are the caller's and Search adds
\* no filter_memories; when no non-default version is pinned, the filters
\* sent are the normalized ones.
C3_VersionPinBypassesNormalization ==
    (call.op \in {"Search", "GetAll"} /\ CallOptions # Nil) =>
        \A i \in DOMAIN wire :
            LET o == CallOptions[1]
                sent == IF "filters" \in DOMAIN SentBody(i)
                        THEN Some(SentBody(i)["filters"]) ELSE Nil
            IN  IF o.Version = "v1" \/ o.MemoryOptions.Version = "v1"
                THEN /\ sent = CallerFilters(CallOptions)
                     /\ "filter_memories" \notin DOMAIN SentBody(i)
                ELSE /\ sent # Nil
                     /\ DefaultedKeys \subseteq DOMAIN sent[1]
                     /\ "agent_id" \notin DOMAIN sent[1]

\* the decimal text of the statuses the service answers with
StatusText(status) ==
    CASE status = 200 -> <<"2", "0", "0">>
      [] status = 201 -> <<"2", "0", "1">>
      [] status = 204 -> <<"2", "0", "4">>
      [] status = 429 -> <<"4", "2", "9">>
      [] status = 500 -> <<"5", "0", "0">>

RejectedForStatus(err) ==
    err.type = "*APIError" /\ Contains(err.msg, <<"API request failed with status ">>)

\* C5: an operation answered with a success status (any 2xx: 200, 201, 204)
\* returns no APIError for that response: it is never rejected for its
\* status.
C5_SuccessStatusGivesNoAPIError ==
    (Answered /\ SuccessStatus(net.status)) => ~RejectedForStatus(ret.err)

\* the construction options pass the local validation
ValidOptions(o) ==
    /\ o.APIKey # ""
    /\ (o.OrganizationName = "") <=> (o.ProjectName = "")
    /\ (o.OrganizationID = "") <=> (o.ProjectID = "")

\* the request goes to the status endpoint
IsPing(req) == req.method = "GET" /\ Len(req.url) = 2 /\ req.url[2] = "/v1/ping/"

\* the call's request was answered 200 with a body that decodes to an object
\* whose status field is "ok"
PingOK ==
    /\ Answered /\ net.status = 200
    /\ ParseObject(net.body) # Nil
    /\ "status" \in DOMAIN ParseObject(net.body)[1]
    /\ ParseObject(net.body)[1]["status"] = "ok"

\* one step of the caller, seen from C6
C6_Step ==
    /\ call'.op = "NewMemoryClient" =>
          /\ (ret'.val # Nil) <=> (ValidOptions(call'.args[1]) /\ PingOK')
          /\ (ret'.val = Nil) <=> (ret'.err # NoError)
          /\ client' = ret'.val
          /\ \A i \in DOMAIN wire' : IsPing(wire'[i])
    /\ client' # client => call'.op = "NewMemoryClient"
    /\ (\E i \in DOMAIN wire' : ~IsPing(wire'[i])) => (client # Nil /\ client' = client)

C7_EmptyKeyFailsWithoutNetwork ==
    (call.op = "NewMemoryClient" /\ call.args[1].APIKey = "") =>
        /\ ret.err # NoError
        /\ ret.val = Nil /\ client = Nil
        /\ wire = <<>> /\ net = NoNet

\* NewMemoryClient was refused for its empty key, every other option set
C7_Witness ==
    /\ call.op = "NewMemoryClient"
    /\ call.args[1] = [APIKey |-> "", Host |-> "http://h", OrganizationName |-> "acme",
                       ProjectName |-> "tea", OrganizationID |-> "org-c",
                       ProjectID |-> "proj-c"]
    /\ ret.err = ErrorsNew("API key is required") /\ wire = <<>>

\* exactly one of a pair of options is set
PartialPair(o) ==
    \/ (o.OrganizationName = "") # (o.ProjectName = "")
    \/ (o.OrganizationID = "") # (o.ProjectID = "")

\* the errors of validateOrgProject
PairErrors ==
    {ErrorsNew("both organizationName and projectName must be provided together"),
     ErrorsNew("both organizationID and projectID must be provided together")}

\* C8: with exactly one of OrganizationName/ProjectName or exactly one of
\* OrganizationID/ProjectID set, NewMemoryClient fails with a configuration
\* error and sends no request; with each pair set or omitted as a whole the
\* validation of the pairs does not fail: with a key the ping is sent.
C8_PartialPairFailsBeforeNetwork ==
    call.op = "NewMemoryClient" =>
        LET o == call.args[1]
        IN  /\ PartialPair(o) =>
                  /\ ret.err.type = "errors.New" /\ ret.val = Nil
                  /\ wire = <<>>
            /\ ~PartialPair(o) =>
                  /\ ret.err \notin PairErrors
                  /\ o.APIKey # "" => wire # <<>>

\* NewMemoryClient was refused for an organization name without a project
\* name, before any request
C8_Witness ==
    /\ call.op = "NewMemoryClient"
    /\ call.args[1].APIKey # ""
    /\ call.args[1].OrganizationName # "" /\ call.args[1].ProjectName = ""
    /\ ret.err \in PairErrors /\ wire = <<>>

\* the option fields of the value the caller passed to Add, AddAsync or
\* Search, as selectors reach them: a nil pointer stands for the zero value
CallerOptionFields ==
    IF call.op = "Search"
    THEN DominantFields(SearchOptionsFields(
             IF call.args[2] = Nil THEN ZeroSearchOptions ELSE call.args[2][1]))
    ELSE DominantFields(MemoryOptionsFields(call.args[2]))

\* the wire names of the option fields that hold their type's zero value
ZeroOptionKeys ==
    LET fields == CallerOptionFields
        zero == SelectSeq(fields, IsZero)
    IN  {WireName(zero[j].tag) : j \in DOMAIN zero}

WrittenByOperation(k, body) ==
    \/ call.op \in {"Add", "AddAsync"} /\ k = "messages"
    \/ call.op \in {"Add", "AddAsync"} /\ k = "version" /\ body[k] = DefaultAPIVersion
    \/ /\ k \in {"org_name", "project_name"}
       /\ client[1].organizationName # "" /\ client[1].projectName # ""
       /\ body[k] = IF k = "org_name" THEN client[1].organizationName
                    ELSE client[1].projectName
    \/ /\ k \in {"org_id", "project_id"}
       /\ client[1].organizationID # "" /\ client[1].projectID # ""
       /\ body[k] = IF k = "org_id" THEN client[1].organizationID
                    ELSE client[1].projectID

ParamNames(q) == {q[i] : i \in {j \in DOMAIN q : j = 1 \/ q[j - 1] = "&"}}

\* the query string of a URL: what follows its first "?"
URLQuery(url) ==
    IF \E i \in DOMAIN url : url[i] = "?"
    THEN SubSeq(url, 1 + CHOOSE i \in DOMAIN url :
                        url[i] = "?" /\ \A j \in 1..(i - 1) : url[j] # "?", Len(url))
    ELSE <<>>

\* the fields of an options value of the given type, as selectors reach them
OptionFields(kind, o) ==
    DominantFields(CASE kind = "MemoryOptions" -> MemoryOptionsFields(o)
                     [] kind = "SearchOptions" -> SearchOptionsFields(o)
                     [] kind = "ProjectOptions" -> ProjectOptionsFields(o))

\* query q has no parameter for a zero-valued field (a nil or empty slice or
\* map counted as zero) and is empty when every field is zero-valued
NoZeroParameters(fields, q) ==
    /\ \A i \in DOMAIN fields :
          IsEmptyValue(fields[i]) => WireName(fields[i].tag) \notin ParamNames(q)
    /\ (\A i \in DOMAIN fields : IsEmptyValue(fields[i])) => q = <<>>

\* C10: the query string ToQuery returns for a MemoryOptions, SearchOptions
\* or ProjectOptions value has no parameter for a field that holds its type's
\* zero value, and is empty for an all-zero value; so the URL of DeleteAll
\* and of GetProject has no such parameter and, for all-zero options, no "?".
C10_ToQueryOmitsZeroFields ==
    /\ call.op = "ToQuery" =>
          NoZeroParameters(OptionFields(call.args[1], call.args[2]), ret.val[1])
    /\ call.op \in {"DeleteAll", "GetProject"} =>
          \A i \in DOMAIN wire :
              LET fields == OptionFields(IF call.op = "DeleteAll" THEN "MemoryOptions"
                                         ELSE "ProjectOptions", call.args[1])
              IN  /\ NoZeroParameters(fields, URLQuery(wire[i].url))
                  /\ (\A j \in DOMAIN fields : IsEmptyValue(fields[j])) =>
                        \A t \in DOMAIN wire[i].url : wire[i].url[t] # "?"

\* ToQuery has encoded a MemoryOptions value with a user id, an unset
\* version, an empty metadata map and an empty messages slice
C10_Witness ==
    /\ call.op = "ToQuery" /\ call.args[1] = "MemoryOptions"
    /\ call.args[2].UserID = "u1" /\ call.args[2].Version = ""
    /\ call.args[2].Metadata = Some(EmptyMap) /\ call.args[2].Messages = Some(<<>>)
    /\ "user_id" \in ParamNames(ret.val[1])
    /\ {"version", "metadata", "messages"} \cap ParamNames(ret.val[1]) = {}

----------------------------------------------------------------------------
(* Properties of the query string, read back as url.ParseQuery reads it *)

\* url.QueryUnescape of one token
QueryUnescape(t) ==
    CASE t = "%2C" -> ","
      [] t = "%7B" -> "{"
      [] t = "%7D" -> "}"
      [] t = "%22" -> "\""
      [] t = "%3A" -> ":"
      [] t = "%2A" -> "*"
      [] OTHER -> t

Unescaped(s) == [i \in 1..Len(s) |-> QueryUnescape(s[i])]

\* the part of q that starts at i and ends before the next "&"
QueryPart(q, i) ==
    LET stops == {j \in i..Len(q) : q[j] = "&"}
        end == IF stops = {} THEN Len(q) + 1
               ELSE CHOOSE j \in stops : \A k \in stops : j <= k
    IN  SubSeq(q, i, end - 1)

\* <<name, value>> of one part: split at its first "=", both unescaped
QueryPair(part) ==
    LET eqs == {j \in DOMAIN part : part[j] = "="}
        e == IF eqs = {} THEN Len(part) + 1
             ELSE CHOOSE j \in eqs : \A k \in eqs : j <= k
    IN  <<Unescaped(SubSeq(part, 1, e - 1)), Unescaped(SubSeq(part, e + 1, Len(part)))>>

\* url.ParseQuery: the set of <<name, value>> pairs of a query string
ParseQuery(q) ==
    {QueryPair(QueryPart(q, i)) : i \in {j \in DOMAIN q : j = 1 \/ q[j - 1] = "&"}}

\* the fields of the options value ToQuery was called with
ToQueryFields == OptionFields(call.args[1], call.args[2])

\* C11: every parameter of the query string ToQuery returns is named by the
\* wire name of a non-zero field of the options value (user_id, page_size,
\* fields, ...), and a field without a wire name gives no parameter.
C11_ParameterNamesAreWireNames ==
    call.op = "ToQuery" =>
        LET fields == ToQueryFields
            names == {<<WireName(fields[i].tag)>> :
                        i \in {j \in DOMAIN fields : ~IsZero(fields[j])}}
        IN  \A kv \in ParseQuery(ret.val[1]) : kv[1] \in names

\* the canonical text of a scalar field or of a sequence of strings
FieldText(f) ==
    CASE f.kind = "string" -> <<f.value>>
      [] f.kind = "int" -> FormatInt(f.value)
      [] f.kind = "bool" -> FormatBool(f.value)
      [] f.kind = "stringslice" ->
            Join([i \in 1..Len(f.value[1]) |-> <<f.value[1][i]>>], ",")

\* C12: for an options value whose scalar and sequence fields are all
\* non-zero, parsing the query string ToQuery returns gives the pair
\* <<wire name, canonical text>> of each of those fields, a sequence's text
\* being its elements joined by commas.
C12_QueryRoundTrip ==
    call.op = "ToQuery" =>
        LET fields == ToQueryFields
            plain == SelectSeq(fields, LAMBDA f :
                        f.kind \in {"string", "int", "bool", "stringslice"})
        IN  (\A i \in DOMAIN plain : ~IsEmptyValue(plain[i])) =>
                \A i \in DOMAIN plain :
                    <<<<WireName(plain[i].tag)>>, FieldText(plain[i])>>
                        \in ParseQuery(ret.val[1])

----------------------------------------------------------------------------
(* Properties of the requests of a call *)

\* the operations that take the identifier of what they act on
IdentifierOperations ==
    {"Get", "Update", "Delete", "History", "DeleteUser", "DeleteWebhook", "GetEvent"}

\* the checks a call makes before it sends: the options of NewMemoryClient,
\* the type of the messages of Add and AddAsync, and that the URL built
\* from an identifier parses
LocalChecksPass ==
    CASE call.op = "NewMemoryClient" -> ValidOptions(call.args[1])
      [] call.op \in {"Add", "AddAsync"} -> call.args[1].kind \in MessageKinds
      [] call.op \in IdentifierOperations \cup {"GetWebhooks"} -> call.args[1] # BadEscape
      [] OTHER -> TRUE

\* C13: a call of a public operation, and NewMemoryClient with its ping,
\* sends at most one request, and exactly one when its local checks pass; a
\* call that returns an error (transport error, failure status, decoding
\* failure) has sent no second request.
C13_AtMostOneRequestPerCall ==
    call.op \notin {"none", "ToQuery"} =>
        /\ Len(wire) <= 1
        /\ LocalChecksPass => Len(wire) = 1
        /\ ret.err # NoError => Len(wire) <= 1

\* an Add answered 500 has returned its error after the one request
C13_Witness ==
    /\ call.op = "Add" /\ Answered /\ net.status = 500
    /\ ret.err # NoError /\ Len(wire) = 1

\* C14: Get, Update, Delete, History, DeleteUser, DeleteWebhook and GetEvent
\* called with an empty identifier return an error and send no request.
C14_EmptyIdentifierRejectedLocally ==
    (call.op \in IdentifierOperations /\ call.args[1] = "") =>
        ret.err # NoError /\ wire = <<>>

\* the identity token of the ping response the call received
PingIdentity ==
    LET obj == ParseObject(net.body)[1]
    IN  IF "user_email" \in DOMAIN obj THEN obj["user_email"] ELSE ""

\* C15: every request, the ping included, carries Authorization = "Token " +
\* the API key given at construction; every request after construction
\* carries Mem0-User-ID exactly when the ping response gave a non-empty
\* identity token, and then with that token as its value.
C15_RequestHeaders ==
    /\ call.op = "NewMemoryClient" =>
          /\ \A i \in DOMAIN wire :
                wire[i].header["Authorization"] = <<"Token ", call.args[1].APIKey>>
          /\ client # Nil =>
                /\ client[1].apiKey = call.args[1].APIKey
                /\ client[1].telemetryID = PingIdentity
    /\ call.op \notin {"none", "NewMemoryClient", "ToQuery"} =>
          \A i \in DOMAIN wire :
              /\ wire[i].header["Authorization"] = <<"Token ", client[1].apiKey>>
              /\ ("Mem0-User-ID" \in DOMAIN wire[i].header) <=> (client[1].telemetryID # "")
              /\ client[1].telemetryID # "" =>
                    wire[i].header["Mem0-User-ID"] = <<client[1].telemetryID>>

\* a Get was sent by a client whose ping gave the identity "u@x"
C15_Witness ==
    /\ call.op = "Get" /\ wire # <<>>
    /\ wire[1].header["Authorization"] = <<"Token ", "test-key">>
    /\ "Mem0-User-ID" \in DOMAIN wire[1].header
    /\ wire[1].header["Mem0-User-ID"] = <<"u@x">>

\* the length of a slice, nil or not
Len0Seq(v) == IF v = Nil THEN 0 ELSE Len(v[1])

\* the path of a request: its URL without the host
RequestPath(req) == SubSeq(req.url, 2, Len(req.url))

\* the messages Add builds from a string or a []string argument
UserMessages(messages) ==
    IF messages.kind = "string" THEN <<Message("user", messages.val)>>
    ELSE [i \in 1..Len(messages.val) |-> Message("user", messages.val[i])]

\* the records of the response body MemoryArray(k), as a result holds them
MemoryRecords(k) == [i \in 1..k |-> [id |-> Digit[i + 1], memory |-> "likes tea"]]

\* what C16 says of the response of Add and of Get
DecodesRecords ==
    /\ (call.op = "Add" /\ Answered /\ net.status = 200) =>
          \A k \in 0..MaxItems :
              net.body = MemoryArray(k) =>
                  ret.err = NoError /\ ret.val = Some(MemoryRecords(k))
    /\ (call.op = "Get" /\ wire # <<>>) =>
          /\ wire[1].method = "GET"
          /\ RequestPath(wire[1]) = <<"/v1/memories/", call.args[1], "/">>
          /\ (Answered /\ net.status = 200 /\ net.body = MemoryObject(1)) =>
                ret.err = NoError /\ ret.val = Some(MemoryRecords(1)[1])

\* C16 as stated: Add with a string s posts to /v1/memories/ a body with
\* messages = [{role: "user", content: s}], a []string giving one user
\* message per element in order; answered 200 with an array of n records it
\* returns no error and the n records' identifiers and texts; Get(id) sends
\* GET /v1/memories/{id}/ and returns the decoded record.
C16_AddSendsUserMessages ==
    /\ (call.op = "Add" /\ wire # <<>>) =>
          /\ wire[1].method = "POST"
          /\ RequestPath(wire[1]) = <<"/v1/memories/">>
          /\ call.args[1].kind \in {"string", "[]string"} =>
                SentBody(1)["messages"] = UserMessages(call.args[1])
    /\ DecodesRecords

\* C16, amended: as C16, the messages of the body being those built from the
\* argument when options.Messages is empty.
C16_AddSendsUserMessagesUnlessOptionsDo ==
    /\ (call.op = "Add" /\ wire # <<>>) =>
          /\ wire[1].method = "POST"
          /\ RequestPath(wire[1]) = <<"/v1/memories/">>
          /\ (/\ call.args[1].kind \in {"string", "[]string"}
              /\ Len0Seq(call.args[2].Messages) = 0) =>
                SentBody(1)["messages"] = UserMessages(call.args[1])
    /\ DecodesRecords

\* Add with a []string and options without messages was answered 200 with as
\* many records, and returned them
C16_Witness ==
    /\ call.op = "Add" /\ call.args[1] = [kind |-> "[]string", val |-> Strings(MaxItems)]
    /\ call.args[2].Messages = Nil
    /\ Answered /\ net.status = 200 /\ net.body = MemoryArray(MaxItems)
    /\ SentBody(1)["messages"] = [i \in 1..MaxItems |-> Message("user", "Hello")]
    /\ ret.err = NoError /\ Len(ret.val[1]) = MaxItems

\* C17: Delete(id) sends DELETE /v1/memories/{id}/ and, answered 200 with an
\* empty body, returns no error; whatever the body of a 200 response is,
\* Delete does not decode it and returns no error.
C17_DeleteIgnoresBody ==
    (call.op = "Delete" /\ wire # <<>>) =>
        /\ wire[1].method = "DELETE"
        /\ RequestPath(wire[1]) = <<"/v1/memories/", call.args[1], "/">>
        /\ wire[1].body = Nil
        /\ (Answered /\ net.status = 200) => ret.err = NoError

\* Delete("m1") was answered 200 with a body that is no JSON and returned no
\* error
C17_Witness ==
    /\ call.op = "Delete" /\ call.args[1] = "m1"
    /\ Answered /\ net.status = 200 /\ net.body = <<"rate limited">>
    /\ ret.err = NoError

\* C18: Search(q, nil) sends a GET request to the path /v1/memories/search/
\* whose URL query has the parameter query = q, and returns the memory
\* records of the JSON array in the response.
C18_SearchSendsGetWithQuery ==
    (call.op = "Search" /\ call.args[2] = Nil /\ wire # <<>>) =>
        /\ wire[1].method = "GET"
        /\ RequestPath(wire[1]) # <<>>
        /\ RequestPath(wire[1])[1] = "/v1/memories/search/"
        /\ <<<<"query">>, <<call.args[1]>>>> \in ParseQuery(URLQuery(wire[1].url))
        /\ (Answered /\ net.status = 200) =>
              \A k \in 0..MaxItems :
                  net.body = MemoryArray(k) =>
                      ret.err = NoError /\ ret.val = Some(MemoryRecords(k))

\* field k of the object in the ping response the call received
PingField(k) ==
    LET obj == ParseObject(net.body)[1]
    IN  IF k \in DOMAIN obj THEN obj[k] ELSE ""

\* C19: after a successful NewMemoryClient the client's organization id and
\* project id are the org_id and project_id of the ping response, whatever
\* ids ClientOptions held; and every request of Add, AddAsync, Search and
\* GetAll that carries org_id or project_id carries the client's, whatever
\* OrgID and ProjectID the options of the call hold (stated for a ping that
\* supplied both ids).
C19_PingSuppliesEffectiveIDs ==
    /\ (call.op = "NewMemoryClient" /\ client # Nil) =>
          /\ client[1].organizationID = PingField("org_id")
          /\ client[1].projectID = PingField("project_id")
    /\ (/\ call.op \in {"Add", "AddAsync", "Search", "GetAll"}
        /\ client[1].organizationID # "" /\ client[1].projectID # "") =>
          \A i \in DOMAIN wire :
              /\ "org_id" \in DOMAIN SentBody(i) =>
                    SentBody(i)["org_id"] = client[1].organizationID
              /\ "project_id" \in DOMAIN SentBody(i) =>
                    SentBody(i)["project_id"] = client[1].projectID

\* the messages preparePayload builds from the messages argument
ArgumentMessages(messages) ==
    CASE messages.kind \in {"string", "[]string"} -> UserMessages(messages)
      [] messages.kind = "Message" -> <<messages.val>>
      [] messages.kind = "[]Message" -> messages.val

----------------------------------------------------------------------------
(* Properties of what a call leaves behind *)

\* C21: Search and GetAll leave the options value the caller passed as it
\* was: when the call has returned, the Filters mapping of the caller's
\* options has the keys and the values it had before the call.
C21_CallerFiltersUnchanged ==
    (call.op \in {"Search", "GetAll"} /\ CallOptions # Nil) =>
        /\ opts # Nil
        /\ opts[1].MemoryOptions.Filters = CallOptions[1].MemoryOptions.Filters

\* the operations of a client
ClientOperations ==
    {"AddAsync", "Add", "Update", "Get", "GetAll", "Search", "Delete", "DeleteAll",
     "History", "Users", "DeleteUser", "DeleteUsers", "BatchUpdate", "BatchDelete",
     "GetProject", "UpdateProject", "GetWebhooks", "CreateWebhook", "UpdateWebhook",
     "DeleteWebhook", "Feedback", "GetEvent", "GetEvents"}

\* once NewMemoryClient has returned a client, a step leaves every field of
\* it as it is
C22_Step == client # Nil => client' = client

RECURSIVE URLText(_)
URLText(url) == IF url = <<>> THEN "" ELSE Head(url) \o URLText(Tail(url))

\* a cursor that is an absolute URL, as the next field of a page is
AbsoluteCursor(cursor) == cursor = DefaultHost \o "/v1/events/?page=2"

\* C23: GetEvents sends one GET request; with an empty cursor to
\* {host}/v1/events/, and with a cursor that is a URL to exactly that URL
\* (a cursor that is a path is taken relative to the host).
C23_GetEventsRequestsCursorURL ==
    (call.op = "GetEvents" /\ wire # <<>>) =>
        /\ Len(wire) = 1
        /\ wire[1].method = "GET"
        /\ URLText(wire[1].url) =
              IF call.args[1] = "" THEN client[1].host \o "/v1/events/"
              ELSE IF AbsoluteCursor(call.args[1]) THEN call.args[1]
              ELSE client[1].host \o call.args[1]

----------------------------------------------------------------------------
(* Properties of the errors a call returns *)

\* the call built a URL that does not parse: http.NewRequest failed
ConstructionFailed ==
    /\ call.op \in IdentifierOperations \cup {"GetWebhooks"}
    /\ call.args[1] = BadEscape

\* the request of the call was sent and the transport failed
TransportFailed == call.op \in ClientOperations \cup {"NewMemoryClient"} /\ wire # <<>> /\ net.err

\* C24 as stated: an error of request construction or of the transport is
\* returned to the caller unchanged by every operation and by
\* NewMemoryClient: the error returned is that very error value.
C24_TransportErrorUnchanged ==
    /\ TransportFailed => ret.err = TransportError
    /\ ConstructionFailed => ret.err = RequestError

\* C24: an error of request construction or of the transport is returned
\* to the caller unchanged by NewMemoryClient and by every operation but
\* GetEvents, which returns it wrapped: an error with the text "failed to
\* get events: " before the error's own and with that very error as cause.
C24_TransportErrorUnchangedOrWrappedByGetEvents ==
    /\ (TransportFailed /\ call.op # "GetEvents") => ret.err = TransportError
    /\ (TransportFailed /\ call.op = "GetEvents") =>
          /\ ret.err.cause = Some(TransportError)
          /\ ret.err.msg = <<"failed to get events", ": ">> \o TransportError.msg
          /\ ret.err.type = "*errors.withStack"
    /\ ConstructionFailed => ret.err = RequestError

\* the transport failed under GetEvents, which returned the wrapped error
C24_Witness ==
    /\ call.op = "GetEvents" /\ wire # <<>> /\ net.err
    /\ ret.err.cause = Some(TransportError)
    /\ ret.val = Nil

\* the request of the call was answered and reading the body of the
\* response failed
ReadFailed ==
    call.op \in ClientOperations \cup {"NewMemoryClient"} /\ Answered /\ net.readErr

\* C25: no error is suppressed: a call in which building the request, the
\* transport, reading the body of the response or the status failed
\* returns a non-nil error; a failed read of the body never ends in the
\* operation reporting success.
C25_NoErrorSuppressed ==
    (\/ ConstructionFailed
     \/ TransportFailed
     \/ ReadFailed
     \/ (call.op \in ClientOperations \cup {"NewMemoryClient"}
           /\ Answered /\ IsFailureStatus(net.status)))
        => ret.err # NoError

====
